---- MODULE Spec2Model ----
(***************************************************************************)
(* Model of the cobb concurrency stress-test harness (src/src/lib.rs):     *)
(* run_test, the per-group driver run_group, the worker loop               *)
(* run_test_thread, the Event latch, the state RwLock and Rng.             *)
(***************************************************************************)
EXTENDS Integers, Sequences, FiniteSets, TLC

\* ---------------------------------------------------------------- bounds
\* threads of a single-group run
MaxThreads == 2
\* iterations of a single-group run
MaxIters == 2
\* sub_iterations of a single-group run
MaxSub == 2
\* groups of a multi-group run
MaxGroups == 2
\* iterations of a multi-group run
GroupIters == 1
\* threads of a run that reaches a reprioritization
PriThreads == 2
\* iterations run after the first reprioritization
PriTail == 2

\* ------------------------------------------------------ program constants
\* run_group line 221: rep % 200
REPRI_PERIOD == 200

\* run_group line 171: test.iterations.max(100)
MIRI_MIN_ITERS == 100

\* ----------------------------------------------------------------- config
\* Option<PrioritizeMode>: mode "None" is Option::None, n is Count's payload.
Mode(m, k) == [mode |-> m, n |-> k]

NoMode == Mode("None", 0)

PrioritizeMode ==
    {Mode("Random", 0), Mode("MostlyLo", 0), Mode("MostlyHi", 0)}
        \cup {Mode("Count", k) : k \in 0..MaxThreads}

\* TestCfg<T>.  may_panic: the user functions are allowed to panic;
\* calls_sp: the test function calls TestCtx::sp(); miri: cfg!(miri).
TestCfg(t, i, s, g, r, m, p, sp) ==
    [threads |-> t, iterations |-> i, sub_iterations |-> s, groups |-> g,
     reprioritize |-> r, miri |-> m, may_panic |-> p, calls_sp |-> sp]

\* single-group runs, every small shape, with and without panics
ShortCfgs ==
    {TestCfg(t, i, s, g, NoMode, FALSE, p, FALSE) :
        t \in 0..MaxThreads, i \in 0..MaxIters, s \in {1}, g \in {1},
        p \in BOOLEAN}
    \cup {TestCfg(MaxThreads, 1, s, 0, NoMode, FALSE, FALSE, sp) :
        s \in 0..MaxSub, sp \in BOOLEAN}

\* runs with several drivers
GroupCfgs ==
    {TestCfg(1, i, 1, g, NoMode, FALSE, p, FALSE) :
        i \in 0..GroupIters, g \in 2..MaxGroups, p \in BOOLEAN}

\* runs long enough to reach the first reprioritization
PriCfgs ==
    {TestCfg(t, REPRI_PERIOD + PriTail, 1, 1, r, FALSE, FALSE, FALSE) :
        t \in 1..PriThreads, r \in PrioritizeMode}

\* the slow-checker build
MiriCfgs ==
    {TestCfg(1, 0, 1, 2, Mode("MostlyHi", 0), TRUE, FALSE, FALSE)}

Configs == ShortCfgs \cup GroupCfgs \cup PriCfgs \cup MiriCfgs

\* ------------------------------------------------------------------ state
VARIABLES
    cfg,           \* the TestCfg handed to run_test
    rt,            \* run_test: pc, loop position, failed list, re-raised payload
    drv,           \* per group: the driver's locals (pc, rep, order, failed, ...)
    wk,            \* per group and worker: the worker's locals
    before_evts,   \* per group and worker: latch of the before-event
    after_events,  \* per group and worker: latch of the after-event
    pri_states,    \* per group and worker: the priority bit
    state,         \* per group: the RwLock around the shared state
    calls,         \* per group and worker: invocations of the test function
    hooks,         \* per group: invocations of setup/before_each/after_each/teardown
    evlog,         \* per group: notifies and completed waits per event
    seen           \* per group and worker: thread_index values passed to test

vars == <<cfg, rt, drv, wk, before_evts, after_events, pri_states, state,
          calls, hooks, evlog, seen>>

Max(a, b) == IF a >= b THEN a ELSE b

Last(s) == s[Len(s)]

\* run_group: `iterations` (raised to 100 under miri)
Iterations(c) ==
    IF c.miri THEN Max(c.iterations, MIRI_MIN_ITERS) ELSE c.iterations

\* run_test: one inline driver, or test.groups spawned drivers
Inline(c) == c.groups <= 1 \/ c.miri

NumDrivers(c) == IF Inline(c) THEN 1 ELSE c.groups

Groups == 0..(NumDrivers(cfg) - 1)

Workers == 0..(cfg.threads - 1)

\* outcomes of a call into user code: TRUE returns, FALSE panics
Outcomes == IF cfg.may_panic THEN BOOLEAN ELSE {TRUE}

\* Event::default(): the latch starts cleared
EventNew == FALSE

\* Event::notify: sets the latch (whatever it was), never blocks
EventNotify(latch) == TRUE

\* mutant: wait returns without waiting for the latch
EventCanWaitNoBlock(latch) == TRUE

\* Event::wait: wait_while(!latch) - may complete only when the latch is set
EventCanWait(latch) == latch

\* mutant: wait returns without clearing the latch
EventWaitedNoClear(latch) == latch

\* Event::wait: the latch is cleared on return
EventWaited(latch) == FALSE

DriverInit ==
    [pc |-> "idle", pos |-> 0, rep |-> 0, order |-> <<>>, failed |-> <<>>,
     payload |-> "none"]

WorkerInit ==
    [pc |-> "unspawned", index |-> 0, iter |-> 0, sub_iter |-> 0,
     cur_pri |-> TRUE, thread_index |-> -1, sp |-> FALSE, applies |-> 0]

HooksInit ==
    [setup |-> 0, before_each |-> 0, after_each |-> 0, teardown |-> 0,
     repri |-> {}, pri_writes |-> {}, joined |-> {},
     pivot |-> -1, repri_order |-> <<>>, overwrite |-> 0]

EvInit == [bn |-> 0, bw |-> 0, an |-> 0, aw |-> 0]

Init ==
    /\ cfg \in Configs
    /\ rt = [pc |-> "start", pos |-> 0, failed |-> <<>>, payload |-> -1]
    /\ drv = [g \in Groups |-> DriverInit]
    /\ wk = [g \in Groups |-> [w \in Workers |-> WorkerInit]]
    /\ before_evts = [g \in Groups |-> [w \in Workers |-> EventNew]]
    /\ after_events = [g \in Groups |-> [w \in Workers |-> EventNew]]
    /\ pri_states = [g \in Groups |-> [w \in Workers |-> TRUE]]
    /\ state = [g \in Groups |->
                  [readers |-> {}, driver |-> "none", poisoned |-> FALSE]]
    /\ calls = [g \in Groups |-> [w \in Workers |-> 0]]
    /\ hooks = [g \in Groups |-> HooksInit]
    /\ evlog = [g \in Groups |-> [w \in Workers |-> EvInit]]
    /\ seen = [g \in Groups |-> [w \in Workers |-> {}]]

\* ------------------------------------------------------------------- Rng
\* result of an operation that may panic: ok = FALSE is the panic
Ok(x) == [ok |-> TRUE, v |-> x]

Panic == [ok |-> FALSE, v |-> 0]

\* values standing for a usize close to usize::MAX after a wrapped subtraction
WrapSample == {1000000}

\* Rng::upto: gen() % top; the generator is seeded from process entropy, so
\* every residue is a possible result; top = 0 is a remainder by zero
upto(top) ==
    IF top = 0 THEN {Panic} ELSE {Ok(x) : x \in 0..(top - 1)}

\* Rng::between: upto(r.end - r.start) + r.start; the subtraction panics
\* under overflow checks and wraps without them
between(lo, hi) ==
    IF hi < lo
    THEN {Panic} \cup {Ok(x) : x \in WrapSample}
    ELSE {IF o.ok THEN Ok(o.v + lo) ELSE Panic : o \in upto(hi - lo)}

swap(v, i, j) == [v EXCEPT ![i + 1] = v[j + 1], ![j + 1] = v[i + 1]]

\* Rng::shuffle, the loop from index i on: for i in 0..len-1, swap(i, between(i..len))
RECURSIVE shuffle_from(_, _)
shuffle_from(v, i) ==
    IF i >= Len(v) - 1
    THEN {Ok(v)}
    ELSE UNION {IF o.ok THEN shuffle_from(swap(v, i, o.v), i + 1) ELSE {Panic} :
                    o \in between(i, Len(v))}

\* Rng::shuffle: v.len() - 1 underflows on an empty slice: a panic under
\* overflow checks, and otherwise a loop whose first between(0..0) divides by zero
shuffle(v) == IF Len(v) = 0 THEN {Panic} ELSE shuffle_from(v, 0)

\* ------------------------------------------------------------ run_group
\* mutant: the `rep != 0` test is forgotten
ReprioritizeNowAtZero(c, rep) ==
    c.reprioritize.mode # "None" /\ rep % REPRI_PERIOD = 0 /\ ~c.miri

\* run_group line 221: the reprioritization condition
ReprioritizeNow(c, rep) ==
    c.reprioritize.mode # "None" /\ rep # 0 /\ rep % REPRI_PERIOD = 0 /\ ~c.miri

\* run_group lines 225-230: the pivot `pris`
Pivot(m, threads) ==
    CASE m.mode = "Random" -> between(1, threads - 1)
      [] m.mode = "MostlyHi" -> {Ok(1)}
      [] m.mode = "MostlyLo" ->
            IF threads = 0 THEN {Panic} \cup {Ok(x) : x \in WrapSample}
            ELSE {Ok(threads - 1)}
      [] m.mode = "Count" -> {Ok(m.n)}

\* mutant: the comparison is <= instead of <
StorePriInclusive(pri, pris, order) ==
    [w \in DOMAIN pri |->
        IF \E k \in 1..Len(order) : order[k] = w THEN w <= pris ELSE pri[w]]

\* run_group lines 231-233: pri_states[i].store(i < pris) for i = order[0..]
StorePri(pri, pris, order) ==
    [w \in DOMAIN pri |->
        IF \E k \in 1..Len(order) : order[k] = w THEN w < pris ELSE pri[w]]

Goto(d, p, i) == [d EXCEPT !.pc = p, !.pos = i]

Panicked(d, what) == [d EXCEPT !.pc = "panicked", !.payload = what]

\* after the join loop: re-raise the last captured panic, or go on to teardown
JoinEnd(d) ==
    IF d.failed # <<>> THEN Panicked(d, "worker") ELSE Goto(d, "teardown", 0)

\* mutant: the join loop is skipped
ToJoinSkipped(d) == JoinEnd(d)

ToJoin(d) == IF cfg.threads > 0 THEN Goto(d, "join", 0) ELSE JoinEnd(d)

ToKick(d) == IF cfg.threads > 0 THEN Goto(d, "kick", 0) ELSE ToJoin(d)

\* mutant: the range is taken inclusive, 0..=iterations
ToIterInclusive(d) ==
    IF d.rep <= Iterations(cfg) THEN Goto(d, "iter", 0) ELSE ToKick(d)

\* head of `for rep in 0..iterations`
ToIter(d) == IF d.rep < Iterations(cfg) THEN Goto(d, "iter", 0) ELSE ToKick(d)

ToSpawn(d) == IF cfg.threads > 0 THEN Goto(d, "spawn", 0) ELSE ToIter(d)

\* a loop over 0..threads: the next element, or the stage after the loop
Step(d, after) ==
    IF d.pos + 1 < cfg.threads THEN [d EXCEPT !.pos = d.pos + 1] ELSE after

Bump(h, f) == [h EXCEPT !.f = h.f + 1]

\* lines 177-187: events, order, priority bits, then the first setup call
RunGroupSetup(g) ==
    /\ drv[g].pc = "start"
    /\ \E ok \in Outcomes :
        /\ hooks' = [hooks EXCEPT ![g].setup = @ + 1]
        /\ drv' = [drv EXCEPT ![g] =
             IF ok
             THEN ToSpawn([drv[g] EXCEPT !.order = [i \in 1..cfg.threads |-> i - 1]])
             ELSE Panicked(drv[g], "setup")]
    /\ before_evts' = [before_evts EXCEPT ![g] = [w \in Workers |-> EventNew]]
    /\ after_events' = [after_events EXCEPT ![g] = [w \in Workers |-> EventNew]]
    /\ pri_states' = [pri_states EXCEPT ![g] = [w \in Workers |-> TRUE]]
    /\ UNCHANGED <<cfg, rt, wk, state, calls, evlog, seen>>

\* mutant: every worker is handed index 0
TestThreadSameIndex(thread_index) ==
    [pc |-> "start", index |-> 0, iter |-> 0, sub_iter |-> 0,
     cur_pri |-> TRUE, thread_index |-> -1, sp |-> FALSE, applies |-> 0]

\* TestThread for the worker spawned under thread_index (lines 191-200)
TestThread(thread_index) ==
    [pc |-> "start", index |-> thread_index, iter |-> 0, sub_iter |-> 0,
     cur_pri |-> TRUE, thread_index |-> -1, sp |-> FALSE, applies |-> 0]

\* lines 189-215: spawn worker number pos
SpawnWorker(g) ==
    /\ drv[g].pc = "spawn"
    /\ wk' = [wk EXCEPT ![g][drv[g].pos] = TestThread(drv[g].pos)]
    /\ drv' = [drv EXCEPT ![g] = Step(drv[g], ToIter(drv[g]))]
    /\ UNCHANGED <<cfg, rt, before_evts, after_events, pri_states, state,
                   calls, hooks, evlog, seen>>

\* lines 217-235: start of iteration rep: reprioritize, then shuffle
IterBegin(g) ==
    /\ drv[g].pc = "iter"
    /\ LET d == drv[g]
           fire == ReprioritizeNow(cfg, d.rep)
       IN \E pv \in (IF fire THEN Pivot(cfg.reprioritize, cfg.threads) ELSE {Ok(0)}),
             sh \in shuffle(d.order) :
            /\ pri_states' = [pri_states EXCEPT ![g] =
                 IF fire /\ pv.ok THEN StorePri(@, pv.v, d.order) ELSE @]
            /\ hooks' = [hooks EXCEPT
                 ![g].repri = IF fire THEN @ \cup {d.rep} ELSE @,
                 ![g].pri_writes = IF fire /\ pv.ok THEN @ \cup {d.rep} ELSE @,
                 ![g].pivot = IF fire /\ pv.ok THEN pv.v ELSE @,
                 ![g].repri_order = IF fire /\ pv.ok THEN d.order ELSE @]
            /\ drv' = [drv EXCEPT ![g] =
                 IF ~pv.ok \/ ~sh.ok
                 THEN Panicked(d, IF ~pv.ok THEN "pivot" ELSE "shuffle")
                 ELSE Goto([d EXCEPT !.order = sh.v],
                           IF d.rep = 0 THEN "setup0" ELSE "before_each", 0)]
    /\ UNCHANGED <<cfg, rt, wk, before_evts, after_events, state, calls,
                   evlog, seen>>

\* mutant: iteration 0 reuses the first state instead of calling setup again
Setup0CallSkipped(g) ==
    /\ drv[g].pc = "setup0"
    /\ drv' = [drv EXCEPT ![g] = Goto(drv[g], "setup0_write", 0)]
    /\ UNCHANGED <<cfg, rt, wk, before_evts, after_events, pri_states, state,
                   calls, evlog, seen, hooks>>

\* line 240: the second setup call of iteration 0
Setup0Call(g) ==
    /\ drv[g].pc = "setup0"
    /\ \E ok \in Outcomes :
        drv' = [drv EXCEPT ![g] =
            IF ok THEN Goto(drv[g], "setup0_write", 0) ELSE Panicked(drv[g], "setup")]
    /\ hooks' = [hooks EXCEPT ![g].setup = @ + 1]
    /\ UNCHANGED <<cfg, rt, wk, before_evts, after_events, pri_states, state,
                   calls, evlog, seen>>

\* RwLock::write may be taken only when nobody holds the lock
CanWrite(l) == l.readers = {} /\ l.driver = "none"

\* RwLock::read may be taken only when no writer holds the lock
CanRead(l) == l.driver # "write"

\* lines 241-243: **state.write() = testv
Setup0Write(g) ==
    /\ drv[g].pc = "setup0_write"
    /\ CanWrite(state[g])
    /\ drv' = [drv EXCEPT ![g] = Goto(drv[g], "before_each", 0)]
    /\ hooks' = [hooks EXCEPT ![g].overwrite = @ + 1]
    /\ UNCHANGED <<cfg, rt, wk, before_evts, after_events, pri_states, state,
                   calls, evlog, seen>>

\* mutant: before_each is called without taking the lock
BeforeEachCallNoLock(g) ==
    /\ drv[g].pc = "before_each"
    /\ hooks' = [hooks EXCEPT ![g].before_each = @ + 1]
    /\ drv' = [drv EXCEPT ![g] = Goto(drv[g], "in_before_each", 0)]
    /\ UNCHANGED <<cfg, rt, wk, before_evts, after_events, pri_states, calls,
                   evlog, seen, state>>

\* lines 250-254: state.read(), then before_each is entered
BeforeEachCall(g) ==
    /\ drv[g].pc = "before_each"
    /\ CanRead(state[g])
    /\ state' = [state EXCEPT ![g].driver = "read"]
    /\ hooks' = [hooks EXCEPT ![g].before_each = @ + 1]
    /\ drv' = [drv EXCEPT ![g] = Goto(drv[g], "in_before_each", 0)]
    /\ UNCHANGED <<cfg, rt, wk, before_evts, after_events, pri_states, calls,
                   evlog, seen>>

\* mutant: a panic of before_each is recorded and the workers are released
BeforeEachReturnReleases(g) ==
    /\ drv[g].pc = "in_before_each"
    /\ \E ok \in Outcomes :
        drv' = [drv EXCEPT ![g] =
            IF ok THEN Goto(drv[g], "notify", 0)
            ELSE Goto([drv[g] EXCEPT !.payload = "before_each"], "kick", 0)]
    /\ state' = [state EXCEPT ![g].driver = "none"]
    /\ UNCHANGED <<cfg, rt, wk, before_evts, after_events, pri_states, calls,
                   hooks, evlog, seen>>

\* before_each returns (the guard is dropped) or panics
BeforeEachReturn(g) ==
    /\ drv[g].pc = "in_before_each"
    /\ \E ok \in Outcomes :
        drv' = [drv EXCEPT ![g] =
            IF ok THEN Goto(drv[g], "notify", 0) ELSE Panicked(drv[g], "before_each")]
    /\ state' = [state EXCEPT ![g].driver = "none"]
    /\ UNCHANGED <<cfg, rt, wk, before_evts, after_events, pri_states, calls,
                   hooks, evlog, seen>>

\* lines 261-264: before_evts[order[pos]].notify()
NotifyBefore(g) ==
    /\ drv[g].pc = "notify"
    /\ LET i == drv[g].order[drv[g].pos + 1] IN
        /\ before_evts' = [before_evts EXCEPT ![g][i] = EventNotify(@)]
        /\ evlog' = [evlog EXCEPT ![g][i].bn = @ + 1]
    /\ drv' = [drv EXCEPT ![g] = Step(drv[g], Goto(drv[g], "wait", 0))]
    /\ UNCHANGED <<cfg, rt, wk, after_events, pri_states, state, calls,
                   hooks, seen>>

\* mutant: only the first after-event is waited for
WaitAfterFirstOnly(g) ==
    /\ drv[g].pc = "wait"
    /\ LET i == drv[g].order[drv[g].pos + 1] IN
        /\ EventCanWait(after_events[g][i])
        /\ after_events' = [after_events EXCEPT ![g][i] = EventWaited(@)]
        /\ evlog' = [evlog EXCEPT ![g][i].aw = @ + 1]
    /\ drv' = [drv EXCEPT ![g] = Goto(drv[g], "after_each", 0)]
    /\ UNCHANGED <<cfg, rt, wk, before_evts, pri_states, state, calls,
                   hooks, seen>>

\* lines 267-269: after_events[order[pos]].wait()
WaitAfter(g) ==
    /\ drv[g].pc = "wait"
    /\ LET i == drv[g].order[drv[g].pos + 1] IN
        /\ EventCanWait(after_events[g][i])
        /\ after_events' = [after_events EXCEPT ![g][i] = EventWaited(@)]
        /\ evlog' = [evlog EXCEPT ![g][i].aw = @ + 1]
    /\ drv' = [drv EXCEPT ![g] = Step(drv[g], Goto(drv[g], "after_each", 0))]
    /\ UNCHANGED <<cfg, rt, wk, before_evts, pri_states, state, calls,
                   hooks, seen>>

\* lines 275-279: state.read(), then after_each is entered
AfterEachCall(g) ==
    /\ drv[g].pc = "after_each"
    /\ CanRead(state[g])
    /\ state' = [state EXCEPT ![g].driver = "read"]
    /\ hooks' = [hooks EXCEPT ![g].after_each = @ + 1]
    /\ drv' = [drv EXCEPT ![g] = Goto(drv[g], "in_after_each", 0)]
    /\ UNCHANGED <<cfg, rt, wk, before_evts, after_events, pri_states, calls,
                   evlog, seen>>

\* mutant: a panic of after_each is caught and the loop goes on
AfterEachReturnSwallowed(g) ==
    /\ drv[g].pc = "in_after_each"
    /\ \E ok \in Outcomes :
        drv' = [drv EXCEPT ![g] =
            IF ok THEN ToIter([drv[g] EXCEPT !.rep = @ + 1])
            ELSE ToIter([drv[g] EXCEPT !.rep = @ + 1, !.payload = "after_each"])]
    /\ state' = [state EXCEPT ![g].driver = "none"]
    /\ UNCHANGED <<cfg, rt, wk, before_evts, after_events, pri_states, calls,
                   hooks, evlog, seen>>

\* after_each returns (end of iteration rep) or panics
AfterEachReturn(g) ==
    /\ drv[g].pc = "in_after_each"
    /\ \E ok \in Outcomes :
        drv' = [drv EXCEPT ![g] =
            IF ok THEN ToIter([drv[g] EXCEPT !.rep = @ + 1])
            ELSE Panicked(drv[g], "after_each")]
    /\ state' = [state EXCEPT ![g].driver = "none"]
    /\ UNCHANGED <<cfg, rt, wk, before_evts, after_events, pri_states, calls,
                   hooks, evlog, seen>>

\* lines 283-285: the last kick, before_evts[order[pos]].notify()
KickBefore(g) ==
    /\ drv[g].pc = "kick"
    /\ LET i == drv[g].order[drv[g].pos + 1] IN
        /\ before_evts' = [before_evts EXCEPT ![g][i] = EventNotify(@)]
        /\ evlog' = [evlog EXCEPT ![g][i].bn = @ + 1]
    /\ drv' = [drv EXCEPT ![g] = Step(drv[g], ToJoin(drv[g]))]
    /\ UNCHANGED <<cfg, rt, wk, after_events, pri_states, state, calls,
                   hooks, seen>>

\* a thread can be joined once it has returned or unwound
Finished(p) == p \in {"exited", "panicked"}

\* lines 286-308: join worker number pos; after the last one, re-raise or go on
JoinWorker(g) ==
    /\ drv[g].pc = "join"
    /\ LET k == drv[g].pos
           d == [drv[g] EXCEPT !.failed =
                   IF wk[g][k].pc = "panicked" THEN Append(@, k) ELSE @]
       IN /\ Finished(wk[g][k].pc)
          /\ drv' = [drv EXCEPT ![g] = Step(d, JoinEnd(d))]
          /\ hooks' = [hooks EXCEPT ![g].joined = @ \cup {k}]
    /\ UNCHANGED <<cfg, rt, wk, before_evts, after_events, pri_states, state,
                   calls, evlog, seen>>

\* lines 310-314: state.write(), then teardown is entered
TeardownCall(g) ==
    /\ drv[g].pc = "teardown"
    /\ CanWrite(state[g])
    /\ state' = [state EXCEPT ![g].driver = "write"]
    /\ hooks' = [hooks EXCEPT ![g].teardown = @ + 1]
    /\ drv' = [drv EXCEPT ![g] = Goto(drv[g], "in_teardown", 0)]
    /\ UNCHANGED <<cfg, rt, wk, before_evts, after_events, pri_states, calls,
                   evlog, seen>>

\* teardown returns, or panics with the write guard held (the lock is poisoned)
TeardownReturn(g) ==
    /\ drv[g].pc = "in_teardown"
    /\ \E ok \in Outcomes :
        /\ drv' = [drv EXCEPT ![g] =
             IF ok THEN Goto(drv[g], "done", 0) ELSE Panicked(drv[g], "teardown")]
        /\ state' = [state EXCEPT ![g].driver = "none", ![g].poisoned = ~ok]
    /\ UNCHANGED <<cfg, rt, wk, before_evts, after_events, pri_states, calls,
                   hooks, evlog, seen>>

\* ------------------------------------------------------- run_test_thread
\* lines 423-425: want_pri = pri.load(); set_own_priority(want_pri);
\* cur_pri = want_pri
WorkerStart(g, w) ==
    /\ wk[g][w].pc = "start"
    /\ wk' = [wk EXCEPT ![g][w].cur_pri = pri_states[g][w],
                        ![g][w].applies = @ + 1,
                        ![g][w].pc = "wait_first"]
    /\ UNCHANGED <<cfg, rt, drv, before_evts, after_events, pri_states, state,
                   calls, hooks, evlog, seen>>

\* head of `for _ in 0..iters`
LoopHead(t) ==
    IF t.iter < Iterations(cfg) THEN [t EXCEPT !.pc = "lock"]
    ELSE [t EXCEPT !.pc = "exited"]

\* lines 426-432: the first before_event.wait(), then TestCtx is built
WorkerFirstWait(g, w) ==
    /\ wk[g][w].pc = "wait_first"
    /\ EventCanWait(before_evts[g][w])
    /\ before_evts' = [before_evts EXCEPT ![g][w] = EventWaited(@)]
    /\ evlog' = [evlog EXCEPT ![g][w].bw = @ + 1]
    /\ wk' = [wk EXCEPT ![g][w] =
                LoopHead([wk[g][w] EXCEPT !.thread_index = wk[g][w].index])]
    /\ UNCHANGED <<cfg, rt, drv, after_events, pri_states, state, calls,
                   hooks, seen>>

\* mutant: the `.max(1)` is forgotten
SubIterationsNoMax(c) == c.sub_iterations

\* number of test invocations of one worker in one iteration (line 437)
SubIterations(c) == Max(c.sub_iterations, 1)

\* line 435: test_state.read().unwrap() - panics on a poisoned lock; then
\* the head of `for sub_iter in 0..sub_iterations.max(1)`
WorkerLock(g, w) ==
    /\ wk[g][w].pc = "lock"
    /\ CanRead(state[g])
    /\ state' = [state EXCEPT ![g].readers =
                    IF state[g].poisoned \/ SubIterations(cfg) = 0
                    THEN @ ELSE @ \cup {w}]
    /\ wk' = [wk EXCEPT ![g][w].pc =
                    IF state[g].poisoned THEN "panicked"
                    ELSE IF SubIterations(cfg) = 0 THEN "notify_after"
                    ELSE "call",
                        ![g][w].sub_iter = 0]
    /\ UNCHANGED <<cfg, rt, drv, before_evts, after_events, pri_states, calls,
                   hooks, evlog, seen>>

\* lines 438-439: tctx.sub_iter = sub_iter; (test_fn)(state, &tctx) is entered
WorkerTestCall(g, w) ==
    /\ wk[g][w].pc = "call"
    /\ calls' = [calls EXCEPT ![g][w] = @ + 1]
    /\ seen' = [seen EXCEPT ![g][w] = @ \cup {wk[g][w].thread_index}]
    /\ wk' = [wk EXCEPT ![g][w].pc = "in_test", ![g][w].sp = FALSE]
    /\ UNCHANGED <<cfg, rt, drv, before_evts, after_events, pri_states, state,
                   hooks, evlog>>

\* TestCtx::sp inside the test function: a schedule point, no shared effect
WorkerSp(g, w) ==
    /\ wk[g][w].pc = "in_test"
    /\ cfg.calls_sp
    /\ ~wk[g][w].sp
    /\ wk' = [wk EXCEPT ![g][w].sp = TRUE]
    /\ UNCHANGED <<cfg, rt, drv, before_evts, after_events, pri_states, state,
                   calls, hooks, evlog, seen>>

\* mutant: the read guard outlives the block and is still held at the notify
WorkerTestReturnKeepGuard(g, w) ==
    /\ wk[g][w].pc = "in_test"
    /\ cfg.calls_sp => wk[g][w].sp
    /\ \E ok \in Outcomes :
        LET more == wk[g][w].sub_iter + 1 < SubIterations(cfg) IN
        /\ wk' = [wk EXCEPT ![g][w].sub_iter = IF ok THEN @ + 1 ELSE @,
                            ![g][w].pc = IF ~ok THEN "panicked"
                                         ELSE IF more THEN "call"
                                         ELSE "notify_after"]
    /\ UNCHANGED <<cfg, rt, drv, before_evts, after_events, pri_states, calls,
                   hooks, evlog, seen, state>>

\* the test function returns: next sub-iteration, or the read guard is
\* dropped (line 441); or it panics and the worker unwinds, dropping the guard
WorkerTestReturn(g, w) ==
    /\ wk[g][w].pc = "in_test"
    /\ cfg.calls_sp => wk[g][w].sp
    /\ \E ok \in Outcomes :
        LET more == wk[g][w].sub_iter + 1 < SubIterations(cfg) IN
        /\ wk' = [wk EXCEPT ![g][w].sub_iter = IF ok THEN @ + 1 ELSE @,
                            ![g][w].pc = IF ~ok THEN "panicked"
                                         ELSE IF more THEN "call"
                                         ELSE "notify_after"]
        /\ state' = [state EXCEPT ![g].readers =
                        IF ok /\ more THEN @ ELSE @ \ {w}]
    /\ UNCHANGED <<cfg, rt, drv, before_evts, after_events, pri_states, calls,
                   hooks, evlog, seen>>

\* line 442: after_event.notify()
WorkerNotify(g, w) ==
    /\ wk[g][w].pc = "notify_after"
    /\ after_events' = [after_events EXCEPT ![g][w] = EventNotify(@)]
    /\ evlog' = [evlog EXCEPT ![g][w].an = @ + 1]
    /\ wk' = [wk EXCEPT ![g][w].pc = "load_pri"]
    /\ UNCHANGED <<cfg, rt, drv, before_evts, pri_states, state, calls,
                   hooks, seen>>

\* mutant: the priority bit is not read again after the notify
WorkerLoadPriStale(g, w) ==
    /\ wk[g][w].pc = "load_pri"
    /\ wk' = [wk EXCEPT ![g][w].pc = "wait_before"]
    /\ UNCHANGED <<cfg, rt, drv, before_evts, after_events, pri_states, state,
                   calls, hooks, evlog, seen>>

\* lines 443-447: re-read the priority bit, reapply if it changed
WorkerLoadPri(g, w) ==
    /\ wk[g][w].pc = "load_pri"
    /\ wk' = [wk EXCEPT ![g][w].cur_pri = pri_states[g][w],
                        ![g][w].applies =
                            IF pri_states[g][w] # wk[g][w].cur_pri THEN @ + 1 ELSE @,
                        ![g][w].pc = "wait_before"]
    /\ UNCHANGED <<cfg, rt, drv, before_evts, after_events, pri_states, state,
                   calls, hooks, evlog, seen>>

\* line 448: before_event.wait() at the end of an iteration
WorkerWait(g, w) ==
    /\ wk[g][w].pc = "wait_before"
    /\ EventCanWait(before_evts[g][w])
    /\ before_evts' = [before_evts EXCEPT ![g][w] = EventWaited(@)]
    /\ evlog' = [evlog EXCEPT ![g][w].bw = @ + 1]
    /\ wk' = [wk EXCEPT ![g][w] = LoopHead([wk[g][w] EXCEPT !.iter = @ + 1])]
    /\ UNCHANGED <<cfg, rt, drv, after_events, pri_states, state, calls,
                   hooks, seen>>

\* -------------------------------------------------------------- run_test
\* line 127: run the only group inline, or start spawning drivers
RunTestStart ==
    /\ rt.pc = "start"
    /\ rt' = [rt EXCEPT !.pc = IF Inline(cfg) THEN "inline" ELSE "spawn"]
    /\ drv' = IF Inline(cfg) THEN [drv EXCEPT ![0].pc = "start"] ELSE drv
    /\ UNCHANGED <<cfg, wk, before_evts, after_events, pri_states, state,
                   calls, hooks, evlog, seen>>

\* line 128: the inline run_group(test, 0) returns or unwinds through run_test
RunTestInlineEnd ==
    /\ rt.pc = "inline"
    /\ drv[0].pc \in {"done", "panicked"}
    /\ rt' = IF drv[0].pc = "done" THEN [rt EXCEPT !.pc = "returned"]
             ELSE [rt EXCEPT !.pc = "panicked", !.payload = 0]
    /\ UNCHANGED <<cfg, drv, wk, before_evts, after_events, pri_states, state,
                   calls, hooks, evlog, seen>>

\* lines 131-142: spawn the driver of group tg = pos
SpawnDriver ==
    /\ rt.pc = "spawn"
    /\ drv' = [drv EXCEPT ![rt.pos].pc = "start"]
    /\ rt' = IF rt.pos + 1 < cfg.groups THEN [rt EXCEPT !.pos = @ + 1]
             ELSE [rt EXCEPT !.pc = "join", !.pos = 0]
    /\ UNCHANGED <<cfg, wk, before_evts, after_events, pri_states, state,
                   calls, hooks, evlog, seen>>

\* mutant: the first failed join is re-raised at once
JoinDriverFailFast ==
    /\ rt.pc = "join"
    /\ drv[rt.pos].pc \in {"done", "panicked"}
    /\ rt' = IF drv[rt.pos].pc = "panicked"
             THEN [rt EXCEPT !.pc = "panicked", !.payload = rt.pos,
                             !.failed = Append(@, rt.pos)]
             ELSE IF rt.pos + 1 < cfg.groups THEN [rt EXCEPT !.pos = @ + 1]
             ELSE [rt EXCEPT !.pc = "returned"]
    /\ UNCHANGED <<cfg, drv, wk, before_evts, after_events, pri_states, state,
                   calls, hooks, evlog, seen>>

\* lines 144-164: join the driver of group pos; after the last join re-raise
\* the last captured panic (failed.pop()) or return
JoinDriver ==
    /\ rt.pc = "join"
    /\ drv[rt.pos].pc \in {"done", "panicked"}
    /\ LET f == IF drv[rt.pos].pc = "panicked"
                THEN Append(rt.failed, rt.pos) ELSE rt.failed
       IN rt' = IF rt.pos + 1 < cfg.groups
                THEN [rt EXCEPT !.pos = @ + 1, !.failed = f]
                ELSE IF f # <<>>
                THEN [rt EXCEPT !.pc = "panicked", !.failed = f,
                                !.payload = Last(f)]
                ELSE [rt EXCEPT !.pc = "returned", !.failed = f]
    /\ UNCHANGED <<cfg, drv, wk, before_evts, after_events, pri_states, state,
                   calls, hooks, evlog, seen>>

\* ------------------------------------------------------------------ system
DriverStep(g) ==
    \/ RunGroupSetup(g)
    \/ SpawnWorker(g)
    \/ IterBegin(g)
    \/ Setup0Call(g)
    \/ Setup0Write(g)
    \/ BeforeEachCall(g)
    \/ BeforeEachReturn(g)
    \/ NotifyBefore(g)
    \/ WaitAfter(g)
    \/ AfterEachCall(g)
    \/ AfterEachReturn(g)
    \/ KickBefore(g)
    \/ JoinWorker(g)
    \/ TeardownCall(g)
    \/ TeardownReturn(g)

WorkerStep(g, w) ==
    \/ WorkerStart(g, w)
    \/ WorkerFirstWait(g, w)
    \/ WorkerLock(g, w)
    \/ WorkerTestCall(g, w)
    \/ WorkerSp(g, w)
    \/ WorkerTestReturn(g, w)
    \/ WorkerNotify(g, w)
    \/ WorkerLoadPri(g, w)
    \/ WorkerWait(g, w)

Next ==
    \/ RunTestStart
    \/ RunTestInlineEnd
    \/ SpawnDriver
    \/ JoinDriver
    \/ \E g \in Groups : DriverStep(g)
    \/ \E g \in Groups : \E w \in Workers : WorkerStep(g, w)

Spec == Init /\ [][Next]_vars

\* every thread that can take a step eventually takes one (OS scheduling)
FairSpec == Spec /\ WF_vars(Next)

\* the short runs, the ones whose callbacks may panic among them
ShortInit == Init /\ cfg \in ShortCfgs \cup GroupCfgs

\* the short runs under the same scheduling assumption
ShortFairSpec == ShortInit /\ [][Next]_vars /\ WF_vars(Next)

\* ------------------------------------------------------------------ claims
WorkerPanicked(g) == \E w \in Workers : wk[g][w].pc = "panicked"

SomeWorkerPanicked == \E g \in Groups : WorkerPanicked(g)

\* the driver of every group with a panicked worker has joined all its
\* workers and re-raised a worker panic, and run_test has unwound
WorkerPanicReraised ==
    /\ \A g \in Groups :
         WorkerPanicked(g) =>
            /\ drv[g].pc = "panicked"
            /\ drv[g].payload = "worker"
            /\ hooks[g].joined = Workers
    /\ rt.pc = "panicked"

\* C1: once a worker has panicked in the test function, the driver of its
\* group eventually completes the join loop over all workers and re-raises
\* a worker panic, and run_test eventually ends by unwinding.
C1_WorkerPanicTerminates == SomeWorkerPanicked ~> WorkerPanicReraised

RECURSIVE SumCalls(_, _)
SumCalls(f, n) == IF n = 0 THEN 0 ELSE f[n - 1] + SumCalls(f, n - 1)

\* C2: when a group's driver has completed, every worker of the group has
\* invoked the test function exactly I * max(sub_iterations, 1) times and the
\* group N * I * max(sub_iterations, 1) times, sp() or not.
C2_InvocationCount ==
    \A g \in Groups :
        drv[g].pc = "done" =>
            LET per == Iterations(cfg) * Max(cfg.sub_iterations, 1) IN
            /\ \A w \in Workers : calls[g][w] = per
            /\ SumCalls(calls[g], cfg.threads) = cfg.threads * per

C2_Witness ==
    \E g \in Groups :
        /\ drv[g].pc = "done"
        /\ cfg.threads >= 2
        /\ cfg.sub_iterations = 0
        /\ cfg.calls_sp
        /\ SumCalls(calls[g], cfg.threads) = cfg.threads

InTest(p) == p \in {"in_test"}

\* C3: while a worker executes the test function of its iteration i, the
\* driver is in the notify/wait phase of the same iteration i: its i-th
\* before_each has returned, its i-th after_each has not been entered, and it
\* is executing neither hook.
C3_TestBetweenHooks ==
    \A g \in Groups : \A w \in Workers :
        InTest(wk[g][w].pc) =>
            /\ drv[g].pc \in {"notify", "wait"}
            /\ drv[g].rep = wk[g][w].iter
            /\ hooks[g].before_each = wk[g][w].iter + 1
            /\ hooks[g].after_each = wk[g][w].iter

C3_Witness ==
    \E g \in Groups : \E w \in Workers :
        /\ InTest(wk[g][w].pc)
        /\ wk[g][w].iter = 1
        /\ drv[g].pc = "wait"
        /\ hooks[g].before_each = 2

\* every driver has gone through teardown with all its workers joined after
\* exactly `iterations` iterations each, and run_test has returned
AllDone ==
    /\ rt.pc = "returned"
    /\ \A g \in Groups :
        /\ drv[g].pc = "done"
        /\ drv[g].rep = Iterations(cfg)
        /\ hooks[g].joined = Workers
        /\ \A w \in Workers :
            wk[g][w].pc = "exited" /\ wk[g][w].iter = Iterations(cfg)

NoUserPanic == ~cfg.may_panic /\ cfg.threads >= 1

\* C4: when setup, the hooks and the test function never panic and
\* threads >= 1, the run terminates: every driver reaches teardown after
\* `iterations` iterations, every worker leaves its loop after exactly
\* `iterations` iterations and is joined, and run_test returns.
C4_RunTerminates == NoUserPanic ~> AllDone

\* the same for the runs whose pivot computation cannot fault (reprioritize
\* other than Random): the rendezvous itself never deadlocks
RendezvousTerminates ==
    (NoUserPanic /\ cfg.reprioritize.mode # "Random") ~> AllDone

\* C5: teardown is invoked at most once per group, exactly once when the
\* driver completes, only after every worker has been joined and none has
\* panicked, and never by a driver that re-raises a worker panic.
C5_TeardownOnce ==
    \A g \in Groups :
        /\ hooks[g].teardown <= 1
        /\ hooks[g].teardown = 1 =>
            /\ hooks[g].joined = Workers
            /\ drv[g].failed = <<>>
            /\ \A w \in Workers : wk[g][w].pc = "exited"
        /\ drv[g].pc = "done" => hooks[g].teardown = 1
        /\ (drv[g].pc = "panicked" /\ drv[g].payload = "worker") =>
            hooks[g].teardown = 0

C5_Witness ==
    \E g \in Groups :
        /\ drv[g].pc = "done"
        /\ cfg.threads = 2
        /\ drv[g].rep = 2
        /\ hooks[g].teardown = 1

\* C6: with iterations = 0 outside the slow-checker build neither the test
\* function nor before_each nor after_each is ever invoked and setup runs
\* once; teardown runs only after every worker has consumed the one final
\* before-event notification, exited and been joined.
C6_ZeroIterations ==
    (cfg.iterations = 0 /\ ~cfg.miri) =>
        \A g \in Groups :
            /\ \A w \in Workers : calls[g][w] = 0
            /\ hooks[g].before_each = 0
            /\ hooks[g].after_each = 0
            /\ hooks[g].setup <= 1
            /\ hooks[g].teardown >= 1 =>
                /\ hooks[g].setup = 1
                /\ hooks[g].joined = Workers
                /\ \A w \in Workers :
                    /\ wk[g][w].pc = "exited"
                    /\ evlog[g][w].bn = 1
                    /\ evlog[g][w].bw = 1

C6_Witness ==
    \E g \in Groups :
        /\ cfg.iterations = 0
        /\ ~cfg.miri
        /\ cfg.threads = 2
        /\ drv[g].pc = "done"
        /\ hooks[g].teardown = 1

Armed(latch) == IF latch THEN 1 ELSE 0

\* C7: on every before-event and after-event the notifies issued so far
\* exceed the completed waits by one exactly when the latch is set and by
\* zero when it is clear: every completed wait found the latch set and
\* cleared it, and no notify was issued on a latch that was still set.
\* Every step that completes a wait finds the latch set and leaves it
\* clear, and every step that issues a notify leaves the latch set.
EventPaired ==
    \A g \in Groups : \A w \in Workers :
        /\ evlog[g][w].bn - evlog[g][w].bw = Armed(before_evts[g][w])
        /\ evlog[g][w].an - evlog[g][w].aw = Armed(after_events[g][w])

EventStep ==
    \A g \in Groups : \A w \in Workers :
        /\ evlog'[g][w].bw # evlog[g][w].bw =>
            before_evts[g][w] /\ ~before_evts'[g][w]
        /\ evlog'[g][w].aw # evlog[g][w].aw =>
            after_events[g][w] /\ ~after_events'[g][w]
        /\ evlog'[g][w].bn # evlog[g][w].bn =>
            ~before_evts[g][w] /\ before_evts'[g][w]
        /\ evlog'[g][w].an # evlog[g][w].an =>
            ~after_events[g][w] /\ after_events'[g][w]

C7_EventPairing == []EventPaired /\ [][EventStep]_vars

\* a before-event notified while its worker was not waiting, after earlier
\* notify/wait pairs on both events of that worker
C7_Witness ==
    \E g \in Groups : \E w \in Workers :
        /\ before_evts[g][w]
        /\ wk[g][w].pc = "load_pri"
        /\ evlog[g][w].bn = 2
        /\ evlog[g][w].bw = 1
        /\ evlog[g][w].aw = 1

\* C8: the thread_index values passed to the test function are in 0..N-1,
\* each worker passes one value only, no two workers pass the same value,
\* and after a completed run of at least one iteration the values of the N
\* workers are exactly 0..N-1.
C8_ThreadIndexPermutation ==
    \A g \in Groups :
        /\ \A w \in Workers :
            /\ seen[g][w] \subseteq 0..(cfg.threads - 1)
            /\ Cardinality(seen[g][w]) <= 1
            /\ calls[g][w] >= 1 => seen[g][w] # {}
        /\ \A w1, w2 \in Workers :
            w1 # w2 => seen[g][w1] \cap seen[g][w2] = {}
        /\ (drv[g].pc = "done" /\ Iterations(cfg) >= 1) =>
            UNION {seen[g][w] : w \in Workers} = 0..(cfg.threads - 1)

C8_Witness ==
    \E g \in Groups :
        /\ drv[g].pc = "done"
        /\ cfg.threads = 2
        /\ drv[g].rep = 2
        /\ UNION {seen[g][w] : w \in Workers} = {0, 1}
        /\ \A w \in Workers : calls[g][w] >= 2

FailedGroups == {rt.failed[i] : i \in 1..Len(rt.failed)}

PanickedGroups == {g \in Groups : drv[g].pc = "panicked"}

\* C9: with groups <= 1 the only driver is group 0, run inline, and run_test
\* ends as that driver ends.  With groups = G > 1 the drivers started are
\* groups 0..G-1; nothing is re-raised before the last join; when run_test
\* has ended every driver has completed or panicked, the recorded failures
\* are exactly the panicked groups, each once, and run_test unwinds, with the
\* panic of one of them, exactly when there is one.  No step changes the
\* state of two groups.
GroupsJoined ==
    /\ Inline(cfg) =>
        /\ Groups = {0}
        /\ rt.pc \in {"start", "inline", "returned", "panicked"}
        /\ rt.pc = "returned" => drv[0].pc = "done"
        /\ rt.pc = "panicked" => drv[0].pc = "panicked" /\ rt.payload = 0
    /\ ~Inline(cfg) =>
        /\ Groups = 0..(cfg.groups - 1)
        /\ rt.pc \in {"start", "spawn", "join", "returned", "panicked"}
        /\ \A g \in Groups :
            drv[g].pc # "idle" <=> (rt.pc # "start" /\ (rt.pc = "spawn" => g < rt.pos))
        /\ rt.pc \in {"start", "spawn", "join"} =>
            /\ rt.payload = -1
            /\ FailedGroups \subseteq PanickedGroups
        /\ rt.pc \in {"returned", "panicked"} =>
            /\ \A g \in Groups : drv[g].pc \in {"done", "panicked"}
            /\ FailedGroups = PanickedGroups
            /\ Len(rt.failed) = Cardinality(PanickedGroups)
            /\ rt.pc = "panicked" <=> PanickedGroups # {}
            /\ rt.pc = "panicked" => rt.payload \in PanickedGroups

\* everything one group owns: its driver, workers, events, bits and state
GroupState(g) ==
    <<drv[g], wk[g], before_evts[g], after_events[g], pri_states[g],
      state[g], calls[g], hooks[g], evlog[g], seen[g]>>

\* no step touches what two different groups own
GroupLocal ==
    \A g, h \in Groups :
        (g # h /\ GroupState(g)' # GroupState(g)) =>
            GroupState(h)' = GroupState(h)

C9_GroupsJoined == []GroupsJoined /\ [][GroupLocal]_vars

\* one group's after_each has panicked, the other group has run to
\* completion, and run_test has re-raised after joining both
C9_Witness ==
    /\ cfg.groups = 2
    /\ rt.pc = "panicked"
    /\ \E g, h \in Groups :
        /\ drv[g].pc = "panicked"
        /\ drv[g].payload = "after_each"
        /\ rt.payload = g
        /\ drv[h].pc = "done"
        /\ hooks[h].teardown = 1

\* C10: a reprioritization happens only when reprioritize is configured and
\* only at the start of an iteration whose index is a positive multiple of
\* 200, priority bits are written only by a reprioritization, all bits are
\* high until the first write, nothing fires before iteration 200, and
\* iteration 200 does not start without one.
ReprioritizeLog ==
    \A g \in Groups :
        /\ \A r \in hooks[g].repri : r > 0 /\ r % 200 = 0
        /\ hooks[g].repri # {} => cfg.reprioritize.mode # "None"
        /\ hooks[g].pri_writes \subseteq hooks[g].repri
        /\ hooks[g].pri_writes = {} => \A w \in Workers : pri_states[g][w]
        /\ drv[g].rep < 200 => hooks[g].repri = {}
        /\ (/\ cfg.reprioritize.mode # "None"
            /\ ~cfg.miri
            /\ drv[g].rep >= 200
            /\ drv[g].pc # "iter") => 200 \in hooks[g].repri

\* a step changes priority bits only as the start of an iteration whose
\* index is a positive multiple of 200, with reprioritize configured
PriStep ==
    \A g \in Groups :
        pri_states'[g] # pri_states[g] =>
            /\ drv[g].pc = "iter"
            /\ drv[g].rep > 0
            /\ drv[g].rep % 200 = 0
            /\ cfg.reprioritize.mode # "None"

C10_ReprioritizeAt200 == []ReprioritizeLog /\ [][PriStep]_vars

C10_Witness ==
    \E g \in Groups :
        /\ hooks[g].pri_writes = {200}
        /\ drv[g].rep = 200
        /\ drv[g].pc = "wait"
        /\ \E w \in Workers : ~pri_states[g][w]

HighCount(g) == Cardinality({w \in Workers : pri_states[g][w]})

Least(a, b) == IF a <= b THEN a ELSE b

\* the first reprioritization of group g has stored the priority bits
Reprioritized(g) == 200 \in hooks[g].pri_writes

\* C11: after a reprioritization under MostlyHi, MostlyLo or Count(n) the
\* pivot was 1, threads-1 or n, and exactly min(pivot, threads) workers hold
\* the high bit, all others the low bit.
C11_HighCount ==
    \A g \in Groups :
        (Reprioritized(g) /\ cfg.reprioritize.mode # "Random") =>
            /\ hooks[g].pivot =
                 IF cfg.reprioritize.mode = "MostlyHi" THEN 1
                 ELSE IF cfg.reprioritize.mode = "MostlyLo" THEN cfg.threads - 1
                 ELSE cfg.reprioritize.n
            /\ HighCount(g) = Least(hooks[g].pivot, cfg.threads)

\* MostlyHi with two workers, right after the stores of iteration 200:
\* exactly one worker holds the high bit
C11_Witness ==
    \E g \in Groups :
        /\ cfg.reprioritize.mode = "MostlyHi"
        /\ cfg.threads = 2
        /\ Reprioritized(g)
        /\ drv[g].rep = 200
        /\ drv[g].pc = "before_each"
        /\ HighCount(g) = 1

\* C12: under Random with threads >= 2 a reprioritization never faults in
\* the pivot computation: it stores the bits with a pivot p, 1 <= p <= threads-1.
C12_RandomPivotInRange ==
    \A g \in Groups :
        (/\ cfg.reprioritize.mode = "Random"
         /\ cfg.threads >= 2
         /\ 200 \in hooks[g].repri) =>
            /\ drv[g].payload # "pivot"
            /\ Reprioritized(g)
            /\ hooks[g].pivot \in 1..(cfg.threads - 1)

HookPanicked(g) == drv[g].payload \in {"before_each", "after_each"}

\* a driver whose hook panicked in iteration rep has stopped there: no
\* later hook, no notification after those of iteration rep, no teardown;
\* an inline driver takes run_test with it
HookPanicStops ==
    \A g \in Groups :
        HookPanicked(g) =>
            /\ drv[g].pc = "panicked"
            /\ hooks[g].teardown = 0
            /\ hooks[g].before_each = drv[g].rep + 1
            /\ hooks[g].after_each =
                 IF drv[g].payload = "after_each" THEN drv[g].rep + 1 ELSE drv[g].rep
            /\ \A w \in Workers :
                 evlog[g][w].bn =
                    IF drv[g].payload = "after_each" THEN drv[g].rep + 1 ELSE drv[g].rep
            /\ Inline(cfg) =>
                /\ rt.pc \in {"inline", "panicked"}
                /\ rt.pc = "inline" => ENABLED RunTestInlineEnd

\* after the panic the driver takes no further step: its locals, its hook
\* counts and the notification counts of its events stay as they are, and
\* the only thing run_test does when the driver is inline is to unwind
HookPanicFrozen ==
    \A g \in Groups :
        HookPanicked(g) =>
            /\ drv'[g] = drv[g]
            /\ hooks'[g] = hooks[g]
            /\ \A w \in Workers : evlog'[g][w].bn = evlog[g][w].bn
            /\ (Inline(cfg) /\ rt' # rt) => rt'.pc = "panicked"

\* C13: when before_each or after_each panics in iteration r the driver of
\* that group stops at once - no later hook, no further before-event
\* notification, no later iteration, no teardown - and with groups <= 1 the
\* panic unwinds run_test.
C13_HookPanicPropagates == []HookPanicStops /\ [][HookPanicFrozen]_vars

\* after_each panicked in the second iteration of an inline driver and
\* run_test has unwound
C13_Witness ==
    /\ Inline(cfg)
    /\ drv[0].payload = "after_each"
    /\ drv[0].rep = 1
    /\ rt.pc = "panicked"
    /\ hooks[0].teardown = 0

\* C14: after a reprioritization with pivot p the worker at position i
\* (counted from 0) of the order the driver held at that moment has its bit
\* set to (i < p).
C14_PivotByPosition ==
    \A g \in Groups :
        Reprioritized(g) =>
            \A k \in 1..Len(hooks[g].repri_order) :
                pri_states[g][hooks[g].repri_order[k]] = (k - 1 < hooks[g].pivot)

\* C15 as stated: while before_each runs the driver holds the write side
\* of the state lock.
C15_BeforeEachHoldsWrite ==
    \A g \in Groups :
        drv[g].pc = "in_before_each" => state[g].driver = "write"

\* C15 as amended: while before_each runs the driver holds the read side of
\* the state lock, and no worker holds the lock.
C15_BeforeEachHoldsRead ==
    \A g \in Groups :
        drv[g].pc = "in_before_each" =>
            /\ state[g].driver = "read"
            /\ state[g].readers = {}

C15_Witness ==
    \E g \in Groups :
        /\ drv[g].pc = "in_before_each"
        /\ drv[g].rep = 1
        /\ cfg.threads = 2
        /\ state[g].driver = "read"

IsPermutation(order) ==
    /\ Len(order) = cfg.threads
    /\ \A w \in Workers : Cardinality({k \in 1..Len(order) : order[k] = w}) = 1

\* the workers at the first k positions of the order
Prefix(order, k) == {order[j] : j \in 1..k}

One(b) == IF b THEN 1 ELSE 0

\* in iteration rep the driver has notified exactly the workers at the
\* positions of its order it has passed, waits only after all N notifies,
\* and reaches after_each only after all N waits
FanOutFanIn ==
    \A g \in Groups :
        LET d == drv[g] IN
        /\ d.pc \in {"notify", "wait", "after_each", "in_after_each"} =>
            IsPermutation(d.order)
        /\ d.pc = "notify" =>
            \A w \in Workers :
                /\ evlog[g][w].bn = d.rep + One(w \in Prefix(d.order, d.pos))
                /\ evlog[g][w].aw = d.rep
        /\ d.pc = "wait" =>
            \A w \in Workers :
                /\ evlog[g][w].bn = d.rep + 1
                /\ evlog[g][w].aw = d.rep + One(w \in Prefix(d.order, d.pos))
        /\ d.pc \in {"after_each", "in_after_each"} =>
            \A w \in Workers :
                /\ evlog[g][w].bn = d.rep + 1
                /\ evlog[g][w].aw = d.rep + 1

\* a step notifies at most one before-event of a group, and a notifying step
\* of the iteration loop notifies the worker at the driver's current position
OneAtATime ==
    \A g \in Groups : \A w \in Workers :
        evlog'[g][w].bn # evlog[g][w].bn =>
            /\ evlog'[g][w].bn = evlog[g][w].bn + 1
            /\ \A v \in Workers : v # w => evlog'[g][v].bn = evlog[g][v].bn
            /\ drv[g].pc \in {"notify", "kick"}
            /\ w = drv[g].order[drv[g].pos + 1]

\* C16: in every iteration the driver notifies the before-events one per
\* step in the order of that iteration's permutation, each worker once, all N
\* before it waits on any after-event, and it does not enter after_each
\* before a wait on each of the N after-events has completed.
C16_NotifyThenWaitAll == []FanOutFanIn /\ [][OneAtATime]_vars

\* second iteration, order <<1, 0>>: worker 1 notified, worker 0 not yet
C16_Witness ==
    \E g \in Groups :
        /\ cfg.threads = 2
        /\ drv[g].pc = "notify"
        /\ drv[g].rep = 1
        /\ drv[g].pos = 1
        /\ drv[g].order = <<1, 0>>
        /\ evlog[g][1].bn = 2
        /\ evlog[g][0].bn = 1

\* C17: Rng.shuffle never faults, whatever the length of the slice, and the
\* driver's order is a permutation of 0..N-1 at every iteration.
C17_ShufflePermutes ==
    \A g \in Groups :
        /\ drv[g].payload # "shuffle"
        /\ drv[g].pc \in {"iter", "setup0", "setup0_write", "before_each",
                          "in_before_each", "notify", "wait", "after_each",
                          "in_after_each"} => IsPermutation(drv[g].order)

Released(g) == \E w \in Workers : evlog[g][w].bw >= 1

\* setup has run once before any worker exists and at most twice; the second
\* result is in the shared state before before_each or any release
SetupCounts ==
    \A g \in Groups :
        /\ hooks[g].setup <= 2
        /\ hooks[g].overwrite <= 1
        /\ (\E w \in Workers : wk[g][w].pc # "unspawned") => hooks[g].setup >= 1
        /\ hooks[g].overwrite = 1 => hooks[g].setup = 2
        /\ Iterations(cfg) >= 1 =>
            /\ (hooks[g].before_each >= 1 \/ Released(g)) =>
                    hooks[g].setup = 2 /\ hooks[g].overwrite = 1
            /\ drv[g].pc \in {"teardown", "in_teardown", "done"} =>
                    hooks[g].setup = 2

\* a setup call is either the one before spawning or the one of iteration 0,
\* and the overwrite happens with no before_each run and no worker released
SetupStep ==
    \A g \in Groups :
        /\ hooks'[g].setup # hooks[g].setup =>
            \/ /\ hooks[g].setup = 0
               /\ drv[g].pc = "start"
               /\ \A w \in Workers : wk[g][w].pc = "unspawned"
            \/ /\ hooks[g].setup = 1
               /\ drv[g].pc = "setup0"
               /\ drv[g].rep = 0
        /\ hooks'[g].overwrite # hooks[g].overwrite =>
            /\ drv[g].rep = 0
            /\ hooks[g].before_each = 0
            /\ ~Released(g)
            /\ state[g].readers = {}

\* C18: with iterations >= 1 setup is invoked twice per group and never
\* more: once before any worker is spawned and once at iteration 0, and that
\* second result is assigned into the shared state before the first
\* before_each and before any worker leaves its first before-event wait.
C18_SetupTwice == []SetupCounts /\ [][SetupStep]_vars

\* iteration 0 under way: both setups done, a worker released
C18_Witness ==
    \E g \in Groups :
        /\ cfg.threads = 2
        /\ drv[g].rep = 0
        /\ drv[g].pc = "wait"
        /\ hooks[g].setup = 2
        /\ hooks[g].overwrite = 1
        /\ hooks[g].before_each = 1
        /\ Released(g)

\* C19: a worker holds read access to the shared state only after its
\* before-event wait of an iteration and before its after-event notify of that
\* iteration; whenever the driver is about to take write access (the
\* iteration-0 overwrite, teardown) or holds it, no worker holds read access,
\* and no lock acquisition of the driver has to block.
C19_WorkerReadWindow ==
    \A g \in Groups :
        /\ \A w \in state[g].readers :
            /\ wk[g][w].pc \in {"call", "in_test"}
            /\ evlog[g][w].bw = wk[g][w].iter + 1
            /\ evlog[g][w].an = wk[g][w].iter
        /\ drv[g].pc \in {"setup0_write", "teardown"} => CanWrite(state[g])
        /\ drv[g].pc \in {"before_each", "after_each"} => CanRead(state[g])
        /\ state[g].driver = "write" => state[g].readers = {}

\* teardown holds the write guard after both workers ran the test
C19_Witness ==
    \E g \in Groups :
        /\ cfg.threads = 2
        /\ drv[g].pc = "in_teardown"
        /\ state[g].driver = "write"
        /\ hooks[g].overwrite = 1
        /\ \A w \in Workers : calls[g][w] >= 2

\* the worker is inside iteration wk.iter: past its before-event wait and
\* not yet past its after-event notify
InIteration(g, w) == wk[g][w].pc \in {"lock", "call", "in_test", "notify_after"}

\* in an iteration at whose start the driver did not store new bits the
\* applied priority is the worker's bit; priority is applied once at the
\* start and at most once more per reprioritization
PriorityCurrent ==
    \A g \in Groups : \A w \in Workers :
        /\ (InIteration(g, w) /\ wk[g][w].iter \notin hooks[g].pri_writes) =>
                wk[g][w].cur_pri = pri_states[g][w]
        /\ wk[g][w].applies <= 1 + Cardinality(hooks[g].pri_writes)

\* the bit is read before the first wait and between each notify and the
\* next wait, and nowhere else; the priority is reapplied only on a change
PriorityStep ==
    \A g \in Groups : \A w \in Workers :
        LET t == wk[g][w] IN
        /\ (t.pc = "start" /\ wk'[g][w].pc # t.pc) =>
            /\ wk'[g][w].pc = "wait_first"
            /\ wk'[g][w].cur_pri = pri_states[g][w]
            /\ wk'[g][w].applies = t.applies + 1
        /\ (t.pc = "load_pri" /\ wk'[g][w].pc # t.pc) =>
            /\ wk'[g][w].pc = "wait_before"
            /\ evlog[g][w].an = t.iter + 1
            /\ wk'[g][w].cur_pri = pri_states[g][w]
            /\ wk'[g][w].applies =
                    t.applies + One(pri_states[g][w] # t.cur_pri)
        /\ t.pc \notin {"start", "load_pri"} =>
            /\ wk'[g][w].cur_pri = t.cur_pri
            /\ wk'[g][w].applies = t.applies
        /\ wk'[g][w].pc = "wait_before" => t.pc \in {"load_pri", "wait_before"}

\* C20: a worker reads its priority bit once before its first before-event
\* wait and again after every after-event notify, before the next wait, and
\* reapplies the priority only when the bit differs from what it last applied;
\* so after a reprioritization at iteration r the applied priority equals the
\* new bit throughout the worker's iteration r+1 (during r it may be stale).
C20_PriorityReapplied == []PriorityCurrent /\ [][PriorityStep]_vars

\* reprioritization at 200 cleared both bits: one worker runs iteration 201
\* with the new priority applied, the other has run iteration 200 with the
\* old one and has not yet re-read its bit
C20_Witness ==
    \E g \in Groups : \E w, v \in Workers :
        /\ w # v
        /\ Reprioritized(g)
        /\ wk[g][w].pc = "in_test"
        /\ wk[g][w].iter = REPRI_PERIOD + 1
        /\ ~pri_states[g][w]
        /\ ~wk[g][w].cur_pri
        /\ wk[g][w].applies = 2
        /\ wk[g][v].pc = "load_pri"
        /\ wk[g][v].iter = REPRI_PERIOD
        /\ ~pri_states[g][v]
        /\ wk[g][v].cur_pri

\* the worker stands in a before_event.wait() whose latch is not set
BlockedInBeforeWait(g, w) ==
    /\ wk[g][w].pc \in {"wait_first", "wait_before"}
    /\ ~EventCanWait(before_evts[g][w])

\* once a hook has panicked every worker of the group is alive, outside the
\* test function, without the state lock, not joined, and either blocked in
\* its before-event wait or on its way to it
HookPanicLeaks ==
    \A g \in Groups :
        HookPanicked(g) =>
            \A w \in Workers :
                /\ wk[g][w].pc \in {"start", "wait_first", "load_pri", "wait_before"}
                /\ wk[g][w].pc \in {"wait_first", "wait_before"} =>
                        BlockedInBeforeWait(g, w)
                /\ evlog[g][w].bw = evlog[g][w].bn
                /\ w \notin state[g].readers
                /\ w \notin hooks[g].joined

\* after the panic no before-event is notified, no before-event wait returns,
\* no worker is joined, the test function is not entered, and a blocked
\* worker does not move
HookPanicNoRelease ==
    \A g \in Groups :
        HookPanicked(g) =>
            /\ before_evts'[g] = before_evts[g]
            /\ calls'[g] = calls[g]
            /\ hooks'[g].joined = hooks[g].joined
            /\ \A w \in Workers :
                /\ evlog'[g][w].bw = evlog[g][w].bw
                /\ BlockedInBeforeWait(g, w) => wk'[g][w] = wk[g][w]

AllBlocked(g) == \A w \in Workers : BlockedInBeforeWait(g, w)

\* every worker of a group whose hook panicked ends up blocked for good
HookPanicBlocks ==
    \A g \in 0..(MaxGroups - 1) :
        (g \in Groups /\ HookPanicked(g)) ~> [](g \in Groups /\ AllBlocked(g))

\* C21: after before_each or after_each has panicked in a group none of the
\* group's workers is released or joined again: each of them reaches its
\* before-event wait and stays blocked there forever, and the test function
\* is not invoked in that group again.
C21_HookPanicLeaksWorkers ==
    /\ []HookPanicLeaks
    /\ [][HookPanicNoRelease]_vars
    /\ HookPanicBlocks

\* after_each panicked in the second iteration; both workers ran the test
\* twice and now stand blocked in their before-event wait, never joined
C21_Witness ==
    \E g \in Groups :
        /\ cfg.threads = 2
        /\ drv[g].payload = "after_each"
        /\ drv[g].rep = 1
        /\ AllBlocked(g)
        /\ \A w \in Workers : calls[g][w] = 2 /\ wk[g][w].pc = "wait_before"
        /\ hooks[g].joined = {}

====
